---- MODULE Spec2Model ----
(***************************************************************************)
(* Model of the Istanbul consensus message core (consensus/istanbul/core/  *)
(* types.go) and of GovModule.EffectiveParamSet.                           *)
(*                                                                         *)
(* Byte strings are sequences of integers 0..255.  Go errors are strings;  *)
(* NoErr is the nil error.                                                 *)
(***************************************************************************)
EXTENDS Integers, Sequences, FiniteSets, TLC

VARIABLES
    m,            \* the receiver *message of the method calls
    other,        \* a second envelope, compared with m by the signing checks
    wire,         \* the bytes last handed to FromPayload
    sent,         \* the envelope the peer encoded into wire, or NoEnvelope
    op,           \* the last operation performed
    err,          \* the error it returned
    out,          \* the bytes it returned (PayloadNoSig / Payload of m)
    outOther,     \* PayloadNoSig of other
    validate,     \* the validateFn last handed to FromPayload
    vargs,        \* the arguments validateFn was last called with, or NoCall
    overwritten,  \* the last FromPayload changed the receiver
    view,         \* the *istanbul.View GetView returned, or NoView
    s, y, cmp,    \* State.Cmp: receiver, argument, result
    tracker,      \* the round/phase state of the view and quorum tracker
    gov           \* the inputs and the result of the last EffectiveParamSet

vars == <<m, other, wire, sent, op, err, out, outOther, validate, vargs,
          overwritten, view, s, y, cmp, tracker, gov>>

-----------------------------------------------------------------------------
(* Values *)

NoErr == "nil"
DecodeError == "rlp: decode error"
VerifyError == "validateFn error"
errInvalidSigner == "invalid signer"
errInvalidMessage == "invalid message"

\* nil []byte results are told from byte strings by a value no byte has
NoBytes == <<-1>>

HashLength == 32
AddressLength == 20

Fill(n, b) == [i \in 1..n |-> b]

\* the items of a sequence of byte strings, one after the other
Concat(items) ==
    LET cat[i \in 0..Len(items)] == IF i = 0 THEN <<>> ELSE cat[i - 1] \o items[i]
    IN  cat[Len(items)]

-----------------------------------------------------------------------------
(* RLP encoding, as rlp.Encode writes it *)

\* minimal big-endian bytes of a non-negative integer (empty for 0)
PutInt(n) ==
    LET put[i \in 0..n] == IF i = 0 THEN <<>> ELSE put[i \div 256] \o <<i % 256>>
    IN  put[n]

\* header of a string (small = 128, large = 183) or list (192, 247) of `size` bytes
EncHead(size, small, large) ==
    IF size < 56 THEN <<small + size>>
    ELSE LET sz == PutInt(size) IN <<large + Len(sz)>> \o sz

\* []byte, and byte arrays (common.Hash, common.Address)
EncodeString(b) ==
    IF Len(b) = 1 /\ b[1] < 128 THEN b ELSE EncHead(Len(b), 128, 183) \o b

\* uint64
EncodeUint(i) ==
    IF i = 0 THEN <<128>>
    ELSE IF i < 128 THEN <<i>>
    ELSE LET b == PutInt(i) IN <<128 + Len(b)>> \o b

\* a list of already encoded items
EncodeList(items) ==
    LET body == Concat(items) IN EncHead(Len(body), 192, 247) \o body

-----------------------------------------------------------------------------
(* RLP decoding, as rlp.Stream reads it *)

BadItem == [ok |-> FALSE, kind |-> "None", content |-> <<>>, rest |-> <<>>]
Item(k, c, r) == [ok |-> TRUE, kind |-> k, content |-> c, rest |-> r]

\* the integer a big-endian byte string stands for
GetInt(b) ==
    LET get[i \in 0..Len(b)] == IF i = 0 THEN 0 ELSE get[i - 1] * 256 + b[i]
    IN  get[Len(b)]

\* a value whose size is given by a big-endian size of n bytes
ReadLong(k, n, t) ==
    IF Len(t) < n THEN BadItem
    ELSE IF t[1] = 0 THEN BadItem                        \* ErrCanonSize
    ELSE LET size == GetInt(SubSeq(t, 1, n)) IN
         IF size < 56 THEN BadItem                       \* ErrCanonSize
         ELSE IF Len(t) - n < size THEN BadItem          \* ErrValueTooLarge
         ELSE Item(k, SubSeq(t, n + 1, n + size), SubSeq(t, n + size + 1, Len(t)))

Bytes == Seq(0..255)

\* Stream.Kind and the read of the value's content: the next value of b
ReadItem[b \in Bytes] ==
    IF b = <<>> THEN BadItem                             \* io.EOF / EOL
    ELSE LET b0 == b[1]
             t == Tail(b)
         IN  IF b0 < 128 THEN Item("Byte", <<b0>>, t)
             ELSE IF b0 < 184 THEN
                 LET size == b0 - 128 IN
                 IF Len(t) < size THEN BadItem           \* ErrValueTooLarge
                 ELSE IF size = 1 /\ t[1] < 128 THEN BadItem   \* ErrCanonSize
                 ELSE Item("String", SubSeq(t, 1, size), SubSeq(t, size + 1, Len(t)))
             ELSE IF b0 < 192 THEN ReadLong("String", b0 - 183, t)
             ELSE IF b0 < 248 THEN
                 LET size == b0 - 192 IN
                 IF Len(t) < size THEN BadItem
                 ELSE Item("List", SubSeq(t, 1, size), SubSeq(t, size + 1, Len(t)))
             ELSE ReadLong("List", b0 - 247, t)

Bad == [ok |-> FALSE, val |-> <<>>]
Good(v) == [ok |-> TRUE, val |-> v]

\* decode into [n]byte
DecodeByteArray(it, n) ==
    IF ~it.ok \/ it.kind = "List" THEN Bad
    ELSE IF Len(it.content) # n THEN Bad     \* input string too long / too short
    ELSE Good(it.content)

\* decode into []byte
DecodeByteSlice(it) ==
    IF ~it.ok \/ it.kind = "List" THEN Bad ELSE Good(it.content)

\* decode into uint64
DecodeUint(it) ==
    IF ~it.ok \/ it.kind = "List" THEN Bad
    ELSE IF it.kind = "Byte" THEN
        (IF it.content[1] = 0 THEN Bad ELSE Good(it.content[1]))      \* ErrCanonInt
    ELSE IF Len(it.content) > 8 THEN Bad                               \* errUintOverflow
    ELSE IF it.content # <<>> /\ it.content[1] = 0 THEN Bad            \* ErrCanonInt
    ELSE Good(GetInt(it.content))


-----------------------------------------------------------------------------
(* type message *)

Message(h, c, p, a, sg, cs) ==
    [Hash |-> h, Code |-> c, Msg |-> p, Address |-> a, Signature |-> sg,
     CommittedSeal |-> cs]

\* new(message): the zero value
ZeroMessage ==
    Message(Fill(HashLength, 0), 0, <<>>, Fill(AddressLength, 0), <<>>, <<>>)

\* an EncodeRLP that writes CommittedSeal before Signature, an order DecodeRLP
\* does not read
EncodeRLP_SealBeforeSignature(e) ==
    EncodeList(<<EncodeString(e.Hash), EncodeUint(e.Code), EncodeString(e.Msg),
                 EncodeString(e.Address), EncodeString(e.CommittedSeal),
                 EncodeString(e.Signature)>>)

\* message.EncodeRLP
EncodeRLP(e) ==
    EncodeList(<<EncodeString(e.Hash), EncodeUint(e.Code), EncodeString(e.Msg),
                 EncodeString(e.Address), EncodeString(e.Signature),
                 EncodeString(e.CommittedSeal)>>)

\* the values of a list's content, in order; ends with BadItem when a value
\* cannot be read
ListItems[b \in Bytes] ==
    IF b = <<>> THEN <<>>
    ELSE LET it == ReadItem[b] IN
         IF it.ok THEN <<it>> \o ListItems[it.rest] ELSE <<BadItem>>

\* Stream.List: the values of the list that is the next value of b
ReadList[b \in Bytes] ==
    LET l == ReadItem[b] IN
    IF l.ok /\ l.kind = "List"
    THEN [ok |-> TRUE, items |-> ListItems[l.content], rest |-> l.rest]
    ELSE [ok |-> FALSE, items |-> <<>>, rest |-> <<>>]

\* message.DecodeRLP on the stream b: the error, the receiver afterwards and
\* the bytes left in the stream
DecodeRLP(recv, b) ==
    CHOOSE r \in
        { IF /\ l.ok
             /\ Len(l.items) = 6             \* too few / too many elements
             /\ DecodeByteArray(l.items[1], HashLength).ok
             /\ DecodeUint(l.items[2]).ok
             /\ DecodeByteSlice(l.items[3]).ok
             /\ DecodeByteArray(l.items[4], AddressLength).ok
             /\ DecodeByteSlice(l.items[5]).ok
             /\ DecodeByteSlice(l.items[6]).ok
          THEN [err |-> NoErr,
                m |-> Message(DecodeByteArray(l.items[1], HashLength).val,
                              DecodeUint(l.items[2]).val,
                              DecodeByteSlice(l.items[3]).val,
                              DecodeByteArray(l.items[4], AddressLength).val,
                              DecodeByteSlice(l.items[5]).val,
                              DecodeByteSlice(l.items[6]).val),
                rest |-> l.rest]
          ELSE [err |-> DecodeError, m |-> recv, rest |-> <<>>]
          : l \in {ReadList[b]} } : TRUE

\* rlp.DecodeBytes(b, &m): one value, and nothing after it
RlpDecodeBytes(recv, b) ==
    CHOOSE r \in
        { IF d.err # NoErr THEN [err |-> d.err, m |-> d.m]
          ELSE IF d.rest # <<>> THEN [err |-> DecodeError, m |-> d.m]   \* ErrMoreThanOneValue
          ELSE [err |-> NoErr, m |-> d.m]
          : d \in {DecodeRLP(recv, b)} } : TRUE

\* message.Payload
Payload(e) == EncodeRLP(e)

\* a PayloadNoSig that encodes the message as it is
PayloadNoSig_KeepSignature(e) == EncodeRLP(e)

\* message.PayloadNoSig
PayloadNoSig(e) ==
    EncodeRLP(Message(e.Hash, e.Code, e.Msg, e.Address, <<>>, e.CommittedSeal))

\* validateFn: nil, or a callback and what it returns on this call
NilFn == [nil |-> TRUE, err |-> NoErr, addr |-> <<>>]
Fn(e, a) == [nil |-> FALSE, err |-> e, addr |-> a]

Called(payload, sig, fn) == [payload |-> payload, sig |-> sig, fn |-> fn]

\* validateFn was not called
NoCall == Called(NoBytes, NoBytes, NilFn)

\* no envelope: the bytes were not made by Payload
NoEnvelope == Message(<<>>, -1, <<>>, <<>>, <<>>, <<>>)

\* a FromPayload that authenticates before it stores the decoded fields
FromPayload_StoreAfterCheck(recv, b, validateFn) ==
    CHOOSE r \in
        { LET e == IF d.err # NoErr THEN d.err
                   ELSE IF validateFn.nil THEN NoErr
                   ELSE IF validateFn.err # NoErr THEN validateFn.err
                   ELSE IF validateFn.addr # d.m.Address THEN errInvalidSigner
                   ELSE NoErr
          IN  [err |-> e,
               m |-> IF e = NoErr THEN d.m ELSE recv,
               vargs |-> IF d.err # NoErr \/ validateFn.nil THEN NoCall
                         ELSE Called(PayloadNoSig(d.m), d.m.Signature, validateFn)]
          : d \in {RlpDecodeBytes(ZeroMessage, b)} } : TRUE

\* a FromPayload that does not compare the recovered address with the sender
FromPayload_NoSenderCheck(recv, b, validateFn) ==
    CHOOSE r \in
        { IF d.err # NoErr THEN [err |-> d.err, m |-> d.m, vargs |-> NoCall]
          ELSE IF validateFn.nil THEN [err |-> NoErr, m |-> d.m, vargs |-> NoCall]
          ELSE [err |-> validateFn.err, m |-> d.m,
                vargs |-> Called(PayloadNoSig(d.m), d.m.Signature, validateFn)]
          : d \in {RlpDecodeBytes(recv, b)} } : TRUE

\* message.FromPayload.  rlp.EncodeToBytes does not fail on a message, so the
\* error return of PayloadNoSig is never taken.
FromPayload(recv, b, validateFn) ==
    CHOOSE r \in
        { IF d.err # NoErr THEN [err |-> d.err, m |-> d.m, vargs |-> NoCall]
          ELSE IF validateFn.nil THEN [err |-> NoErr, m |-> d.m, vargs |-> NoCall]
          ELSE LET payload == PayloadNoSig(d.m)
                   call == Called(payload, d.m.Signature, validateFn)
               IN  IF validateFn.err # NoErr
                   THEN [err |-> validateFn.err, m |-> d.m, vargs |-> call]
                   ELSE IF validateFn.addr # d.m.Address
                   THEN [err |-> errInvalidSigner, m |-> d.m, vargs |-> call]
                   ELSE [err |-> NoErr, m |-> d.m, vargs |-> call]
          : d \in {RlpDecodeBytes(recv, b)} } : TRUE

-----------------------------------------------------------------------------
(* The inner payloads and message.GetView *)

msgPreprepare == 0
msgPrepare == 1
msgCommit == 2
msgRoundChange == 3
msgAll == 4

View(seq, round) == [Sequence |-> seq, Round |-> round]

\* a nil *istanbul.View
NoView == View(-1, -1)

EncodeView(v) == EncodeList(<<EncodeUint(v.Sequence), EncodeUint(v.Round)>>)

\* the payload of a Prepare, Commit or RoundChange: {view, digest}
EncodeSubject(v, digest) == EncodeList(<<EncodeView(v), EncodeString(digest)>>)

\* the payload of a Proposal: {view, candidate}; the candidate block is a list
EncodePreprepare(v, block) == EncodeList(<<EncodeView(v), EncodeList(block)>>)

\* decode into istanbul.View
DecodeView(it) ==
    LET i1 == ReadItem[it.content]
        i2 == ReadItem[i1.rest]
        f1 == DecodeUint(i1)
        f2 == DecodeUint(i2)
    IN  IF it.ok /\ it.kind = "List" /\ f1.ok /\ f2.ok /\ i2.rest = <<>>
        THEN Good(View(f1.val, f2.val))
        ELSE Bad

\* message.Decode(&subject): rlp.DecodeBytes(m.Msg, val) into *istanbul.Subject
DecodeSubject(b) ==
    LET l  == ReadItem[b]
        i1 == ReadItem[l.content]
        i2 == ReadItem[i1.rest]
        f1 == DecodeView(i1)
        f2 == DecodeByteArray(i2, HashLength)
    IN  IF /\ l.ok /\ l.kind = "List" /\ f1.ok /\ f2.ok
           /\ i2.rest = <<>> /\ l.rest = <<>>
        THEN [err |-> NoErr, View |-> f1.val]
        ELSE [err |-> DecodeError, View |-> NoView]

\* message.Decode(&preprepare): rlp.DecodeBytes(m.Msg, val) into *istanbul.Preprepare
DecodePreprepare(b) ==
    LET l  == ReadItem[b]
        i1 == ReadItem[l.content]
        i2 == ReadItem[i1.rest]
        f1 == DecodeView(i1)
    IN  IF /\ l.ok /\ l.kind = "List" /\ f1.ok
           /\ i2.ok /\ i2.kind = "List"
           /\ i2.rest = <<>> /\ l.rest = <<>>
        THEN [err |-> NoErr, View |-> f1.val]
        ELSE [err |-> DecodeError, View |-> NoView]

\* a GetView whose switch has no default case: every other code is a subject
GetView_NoDefault(e) ==
    IF e.Code = msgPreprepare
    THEN LET d == DecodePreprepare(e.Msg) IN [view |-> d.View, err |-> d.err]
    ELSE LET d == DecodeSubject(e.Msg) IN [view |-> d.View, err |-> d.err]

\* a GetView that reports a payload that does not decode as errInvalidMessage
GetView_DecodeErrAsInvalid(e) ==
    LET d == IF e.Code = msgPreprepare THEN DecodePreprepare(e.Msg)
             ELSE DecodeSubject(e.Msg)
    IN  IF e.Code \in {msgPreprepare, msgPrepare, msgCommit, msgRoundChange}
           /\ d.err = NoErr
        THEN [view |-> d.View, err |-> NoErr]
        ELSE [view |-> NoView, err |-> errInvalidMessage]

\* message.GetView
GetView(e) ==
    IF e.Code = msgPreprepare THEN
        LET d == DecodePreprepare(e.Msg) IN
        IF d.err # NoErr THEN [view |-> NoView, err |-> d.err]
        ELSE [view |-> d.View, err |-> NoErr]
    ELSE IF e.Code \in {msgPrepare, msgCommit, msgRoundChange} THEN
        LET d == DecodeSubject(e.Msg) IN
        IF d.err # NoErr THEN [view |-> NoView, err |-> d.err]
        ELSE [view |-> d.View, err |-> NoErr]
    ELSE [view |-> NoView, err |-> errInvalidMessage]

-----------------------------------------------------------------------------
(* type State and State.Cmp *)

StateAcceptRequest == 0
StatePreprepared == 1
StatePrepared == 2
StateCommitted == 3

\* a Cmp that returns the difference of the two states
Cmp_Difference(a, b) == a - b

\* State.Cmp
Cmp(a, b) == IF a < b THEN -1 ELSE IF a > b THEN 1 ELSE 0

-----------------------------------------------------------------------------
(* GovModule.EffectiveParamSet *)

MaxValue == 1
MaxBlock == 1

ParamNames == {"governance.unitprice", "istanbul.committeesize"}
ParamValues == 0..MaxValue

\* a partial parameter set: a map from some of the names to values
PartialParamSets == UNION {[D -> ParamValues] : D \in SUBSET ParamNames}

\* gov.GetDefaultGovernanceParamSet
DefaultGovernanceParamSet == [k \in ParamNames |-> 0]

\* for k, v := range p { ret.Set(k, v) }
SetAll(ret, p) == [k \in ParamNames |-> IF k \in DOMAIN p THEN p[k] ELSE ret[k]]

\* an EffectiveParamSet that applies the header parameters last
EffectiveParamSet_HeaderLast(p1, koreHF, p2) ==
    LET r == IF koreHF THEN SetAll(DefaultGovernanceParamSet, p2)
             ELSE DefaultGovernanceParamSet
    IN  SetAll(r, p1)

\* GovModule.EffectiveParamSet(blockNum), given what the collaborators return at
\* blockNum: p1 = m.Hgm.EffectiveParamsPartial, koreHF = m.isKoreHF,
\* p2 = m.Cgm.EffectiveParamsPartial
EffectiveParamSet(p1, koreHF, p2) ==
    LET r == SetAll(DefaultGovernanceParamSet, p1)
    IN  IF koreHF THEN SetAll(r, p2) ELSE r

-----------------------------------------------------------------------------
(* View and quorum tracker: the round/phase state of one sequence.          *)
(* types.go declares the phases only; the operations follow the design     *)
(* document: one vote per validator, f = floor((N-1)/3), Q = N - f.  The   *)
(* round a round change moves to is the highest round that f+1 distinct     *)
(* validators ask to reach.                                                 *)

MaxValidators == 4
MaxRound == 5

Digests == {"d1", "d2"}
NoDigest == "no digest"
NoVote == "no vote"

\* the rounds a RoundChange asks for
RequestRounds == {1, MaxRound}
Rounds == 0..MaxRound

Validators(t) == 1..t.n

\* f = floor((N-1)/3)
F(t) == (t.n - 1) \div 3

\* Q = N - f
Quorum(t) == t.n - F(t)

Stopped ==
    [n |-> 0, round |-> 0, phase |-> StateAcceptRequest, digest |-> NoDigest,
     prepares |-> <<>>, rc |-> [r \in Rounds |-> {}], fired |-> 0,
     res |-> "stopped"]

\* start: the first round/phase state, at phase AcceptRequest
NewRoundState(n, round, rc, res) ==
    [n |-> n, round |-> round, phase |-> StateAcceptRequest, digest |-> NoDigest,
     prepares |-> [v \in 1..n |-> NoVote], rc |-> rc, fired |-> 0, res |-> res]

\* AcceptRequest -> Preprepared: a valid Proposal for the current view
AcceptProposal(t, digest) ==
    [t EXCEPT !.phase = StatePreprepared, !.digest = digest, !.res = "ok"]

\* the senders whose stored Prepare subject has this digest
PrepareSenders(t, digest) == {v \in Validators(t) : t.prepares[v] = digest}

\* an addPrepare that fires whenever the count is at least Q
AddPrepare_FireAgain(t, sender, digest) ==
    LET stored == [t EXCEPT !.prepares[sender] = digest, !.res = "ok"]
    IN  IF Cardinality(PrepareSenders(stored, digest)) >= Quorum(stored)
        THEN [stored EXCEPT !.phase = StatePrepared, !.fired = t.fired + 1]
        ELSE stored

\* addPrepare(sender, subject), the subject being for the current view
AddPrepare(t, sender, digest) ==
    IF t.prepares[sender] # NoVote THEN [t EXCEPT !.res = "Duplicate"]
    ELSE LET stored == [t EXCEPT !.prepares[sender] = digest, !.res = "ok"]
         IN  IF /\ Cardinality(PrepareSenders(stored, digest)) >= Quorum(stored)
                /\ stored.phase = StatePreprepared
             THEN [stored EXCEPT !.phase = StatePrepared, !.fired = t.fired + 1]
             ELSE stored

\* the distinct validators that requested a round >= R
Requesters(t, R) == UNION {t.rc[r] : r \in {q \in Rounds : q >= R}}

\* the rounds above the current one that f+1 distinct validators ask to reach
Supported(t) ==
    {R \in Rounds : R > t.round /\ Cardinality(Requesters(t, R)) >= F(t) + 1}

Max(S) == CHOOSE x \in S : \A z \in S : z <= x

\* an addRoundChange that moves as soon as one validator asks
AddRoundChange_AnyRequest(t, sender, round) ==
    IF round <= t.round THEN [t EXCEPT !.res = "StaleView"]
    ELSE NewRoundState(t.n, round,
             [r \in Rounds |-> IF r = round THEN t.rc[r] \cup {sender}
                               ELSE IF r < round THEN {} ELSE t.rc[r]], "round change")

\* addRoundChange(sender, round)
AddRoundChange(t, sender, round) ==
    IF round < t.round THEN [t EXCEPT !.res = "StaleView"]
    ELSE LET stored == [t EXCEPT !.rc[round] = @ \cup {sender}, !.res = "ok"]
         IN  IF Supported(stored) = {} \/ stored.phase = StateCommitted THEN stored
             ELSE LET R == Max(Supported(stored))
                  IN  NewRoundState(t.n, R,
                          [r \in Rounds |-> IF r < R THEN {} ELSE stored.rc[r]],
                          "round change")

-----------------------------------------------------------------------------
(* The inputs the operations are given *)

Hashes == {Fill(HashLength, 0), Fill(HashLength, 171)}
Addresses == {Fill(AddressLength, 17), Fill(AddressLength, 34)}
Signatures == {<<>>, Fill(65, 7)}
Seals == {<<>>, <<200>>}
Codes == {0, 200}
Payloads == {<<5>>, <<200, 1>>}

Envelopes ==
    {Message(h, c, p, a, sg, cs) :
        h \in Hashes, c \in Codes, p \in Payloads, a \in Addresses,
        sg \in Signatures, cs \in Seals}

ValidateFns ==
    {NilFn, Fn(VerifyError, Fill(AddressLength, 0))} \cup {Fn(NoErr, a) : a \in Addresses}

\* bytes no envelope encodes to
Sample == Message(Fill(HashLength, 171), 3, <<5>>, Fill(AddressLength, 17), <<200>>, <<9>>)
SampleFields ==
    <<EncodeString(Sample.Hash), EncodeUint(Sample.Code), EncodeString(Sample.Msg),
      EncodeString(Sample.Address), EncodeString(Sample.Signature),
      EncodeString(Sample.CommittedSeal)>>
Malformed ==
    { <<>>,                                                   \* no input
      <<128>>,                                                \* a string, not a list
      SubSeq(EncodeRLP(Sample), 1, Len(EncodeRLP(Sample)) - 1),   \* truncated
      EncodeRLP(Sample) \o <<0>>,                             \* a value and more input
      EncodeList(SubSeq(SampleFields, 1, 5)),                 \* too few elements
      EncodeList(SampleFields \o <<EncodeUint(1)>>),          \* too many elements
      EncodeList(<<EncodeString(Fill(HashLength - 1, 1))>> \o Tail(SampleFields)),
      EncodeList(<<SampleFields[1], <<129, 5>>>> \o SubSeq(SampleFields, 3, 6)) }

Views == {View(10, 0), View(10, 5)}
Blocks == {<<>>, <<EncodeUint(7), EncodeString(<<1, 2>>)>>}

SubjectPayloads == {EncodeSubject(v, h) : v \in Views, h \in Hashes}
ProposalPayloads == {EncodePreprepare(v, b) : v \in Views, b \in Blocks}
SampleSubject == EncodeSubject(View(10, 5), Fill(HashLength, 171))
OtherPayloads ==
    { <<>>, <<5>>, <<192>>,
      SubSeq(SampleSubject, 1, Len(SampleSubject) - 1),
      SampleSubject \o <<0>>,
      EncodeList(<<EncodeView(View(10, 5)), EncodeString(Fill(HashLength - 1, 1))>>),
      EncodeList(<<EncodeList(<<EncodeUint(10)>>), EncodeString(Fill(HashLength, 1))>>) }

ViewCodes == {msgPreprepare, msgPrepare, msgCommit, msgRoundChange, msgAll, 99}

ViewEnvelopes ==
    {Message(h, c, p, Fill(AddressLength, 17), <<>>, <<>>) :
        h \in Hashes, c \in ViewCodes,
        p \in SubjectPayloads \cup ProposalPayloads \cup OtherPayloads}

-----------------------------------------------------------------------------
(* The state after construction *)

NoGov ==
    [blockNum |-> 0, p1 |-> <<>>, koreHF |-> FALSE, p2 |-> <<>>,
     ret |-> DefaultGovernanceParamSet, calls |-> 0]

Init ==
    /\ m = ZeroMessage
    /\ other = ZeroMessage
    /\ wire = <<>>
    /\ sent = NoEnvelope
    /\ op = "new"
    /\ err = NoErr
    /\ out = NoBytes
    /\ outOther = NoBytes
    /\ validate = NilFn
    /\ vargs = NoCall
    /\ overwritten = FALSE
    /\ view = NoView
    /\ s = StateAcceptRequest
    /\ y = StateAcceptRequest
    /\ cmp = 0
    /\ tracker = Stopped
    /\ gov = NoGov

msgVars ==
    <<m, other, wire, sent, op, err, out, outOther, validate, vargs, overwritten, view>>
cmpVars == <<s, y, cmp>>

-----------------------------------------------------------------------------
(* Encoding, decoding and authentication of the envelope *)

\* m := new(message)
NewMessage ==
    /\ m' = ZeroMessage
    /\ op' = "new"
    /\ err' = NoErr
    /\ wire' = <<>>
    /\ sent' = NoEnvelope
    /\ validate' = NilFn
    /\ vargs' = NoCall
    /\ overwritten' = FALSE
    /\ UNCHANGED <<other, out, outOther, view, cmpVars, tracker, gov>>

DoFromPayload(b, validateFn) ==
    \E r \in {FromPayload(m, b, validateFn)} :
    /\ m' = r.m
    /\ err' = r.err
    /\ validate' = validateFn
    /\ vargs' = r.vargs
    /\ wire' = b
    /\ overwritten' = (r.m # m)
    /\ op' = "FromPayload"
    /\ UNCHANGED <<other, out, outOther, view, cmpVars, tracker, gov>>

\* m.FromPayload(b, validateFn) on the bytes a peer made with e.Payload()
FromPayloadEncoded ==
    \E e \in Envelopes, validateFn \in ValidateFns :
        /\ sent' = e
        /\ \E b \in {Payload(e)} : DoFromPayload(b, validateFn)

\* m.FromPayload(b, validateFn) on other bytes
FromPayloadRaw ==
    \E b \in Malformed, validateFn \in ValidateFns :
        /\ sent' = NoEnvelope
        /\ DoFromPayload(b, validateFn)

NextCodec == NewMessage \/ FromPayloadEncoded \/ FromPayloadRaw

SpecCodec == Init /\ [][NextCodec]_vars

-----------------------------------------------------------------------------
(* The signed bytes of two envelopes *)

\* m := &message{...}, and a copy of it
Construct ==
    \E e \in Envelopes :
        /\ m' = e
        /\ other' = e
        /\ out' = NoBytes
        /\ outOther' = NoBytes
        /\ op' = "construct"
        /\ UNCHANGED <<wire, sent, err, validate, vargs, overwritten, view, cmpVars,
                       tracker, gov>>

\* other.Signature = sg
SetSignature ==
    \E sg \in Signatures :
        /\ op # "new"
        /\ other' = [other EXCEPT !.Signature = sg]
        /\ out' = NoBytes
        /\ outOther' = NoBytes
        /\ op' = "construct"
        /\ UNCHANGED <<m, wire, sent, err, validate, vargs, overwritten, view, cmpVars,
                       tracker, gov>>

\* other.CommittedSeal = cs
SetCommittedSeal ==
    \E cs \in Seals :
        /\ op # "new"
        /\ other' = [other EXCEPT !.CommittedSeal = cs]
        /\ out' = NoBytes
        /\ outOther' = NoBytes
        /\ op' = "construct"
        /\ UNCHANGED <<m, wire, sent, err, validate, vargs, overwritten, view, cmpVars,
                       tracker, gov>>

\* m.PayloadNoSig() and other.PayloadNoSig()
DoPayloadNoSig ==
    /\ op = "construct"
    /\ out' = PayloadNoSig(m)
    /\ outOther' = PayloadNoSig(other)
    /\ op' = "PayloadNoSig"
    /\ UNCHANGED <<m, other, wire, sent, err, validate, vargs, overwritten, view,
                   cmpVars, tracker, gov>>

NextSign == Construct \/ SetSignature \/ SetCommittedSeal \/ DoPayloadNoSig

SpecSign == Init /\ [][NextSign]_vars

-----------------------------------------------------------------------------
(* The view of an envelope *)

ConstructForView ==
    \E e \in ViewEnvelopes :
        /\ m' = e
        /\ view' = NoView
        /\ err' = NoErr
        /\ op' = "construct"
        /\ UNCHANGED <<other, wire, sent, out, outOther, validate, vargs, overwritten,
                       cmpVars, tracker, gov>>

\* m.GetView()
DoGetView ==
    /\ op = "construct"
    /\ LET r == GetView(m) IN
        /\ view' = r.view
        /\ err' = r.err
    /\ op' = "GetView"
    /\ UNCHANGED <<m, other, wire, sent, out, outOther, validate, vargs, overwritten,
                   cmpVars, tracker, gov>>

NextView == ConstructForView \/ DoGetView

SpecView == Init /\ [][NextView]_vars

-----------------------------------------------------------------------------
(* Comparing phases *)

MaxState == 10

\* s.Cmp(y)
DoCmp ==
    \E a \in 0..MaxState, b \in 0..MaxState :
        /\ s' = a
        /\ y' = b
        /\ cmp' = Cmp(a, b)
        /\ op' = "Cmp"
        /\ UNCHANGED <<m, other, wire, sent, err, out, outOther, validate, vargs,
                       overwritten, view, tracker, gov>>

NextCmp == DoCmp

SpecCmp == Init /\ [][NextCmp]_vars

-----------------------------------------------------------------------------
(* The tracker's operations *)

\* start: the first round/phase state of a sequence, for a validator set of n
Start ==
    \E n \in 1..MaxValidators :
        /\ tracker = Stopped
        /\ tracker' = NewRoundState(n, 0, [r \in Rounds |-> {}], "started")
        /\ UNCHANGED <<msgVars, cmpVars, gov>>

\* a valid Proposal for the current view, from its proposer
HandleProposal ==
    \E digest \in Digests :
        /\ tracker # Stopped
        /\ tracker.phase = StateAcceptRequest
        /\ tracker' = AcceptProposal(tracker, digest)
        /\ UNCHANGED <<msgVars, cmpVars, gov>>

\* addPrepare(sender, subject): Prepares are processed once the proposal of the
\* view is accepted
DoAddPrepare ==
    \E sender \in Validators(tracker), digest \in Digests :
        /\ tracker # Stopped
        /\ Cmp(tracker.phase, StatePreprepared) >= 0
        /\ tracker' = AddPrepare(tracker, sender, digest)
        /\ UNCHANGED <<msgVars, cmpVars, gov>>

\* addRoundChange(sender, round)
DoAddRoundChange ==
    \E sender \in Validators(tracker), round \in RequestRounds :
        /\ tracker # Stopped
        /\ tracker' = AddRoundChange(tracker, sender, round)
        /\ UNCHANGED <<msgVars, cmpVars, gov>>

NextTracker == Start \/ HandleProposal \/ DoAddPrepare \/ DoAddRoundChange

SpecTracker == Init /\ [][NextTracker]_vars

-----------------------------------------------------------------------------
(* Governance parameters *)

\* m.EffectiveParamSet(blockNum)
DoEffectiveParamSet ==
    \E blockNum \in 0..MaxBlock, p1 \in PartialParamSets, koreHF \in BOOLEAN,
       p2 \in PartialParamSets :
        /\ gov' = [blockNum |-> blockNum, p1 |-> p1, koreHF |-> koreHF, p2 |-> p2,
                   ret |-> EffectiveParamSet(p1, koreHF, p2), calls |-> 1]
        /\ UNCHANGED <<msgVars, cmpVars, tracker>>

NextGov == DoEffectiveParamSet

SpecGov == Init /\ [][NextGov]_vars

-----------------------------------------------------------------------------
(* Properties *)

AgreeOnSignedFields ==
    /\ m.Hash = other.Hash
    /\ m.Code = other.Code
    /\ m.Msg = other.Msg
    /\ m.Address = other.Address

Authenticates == op = "FromPayload" /\ sent # NoEnvelope /\ ~validate.nil

\* C2, as stated: FromPayload with a validateFn, on bytes that decode to an
\* envelope, returns errInvalidSigner whenever validateFn does not recover the
\* sender, and succeeds only when it recovers the sender.
C2_InvalidSignerUnlessRecovered ==
    Authenticates =>
        IF validate.err = NoErr /\ validate.addr = sent.Address
        THEN err = NoErr
        ELSE err = errInvalidSigner

\* C2, amended: FromPayload with a validateFn, on bytes that decode to an
\* envelope e, calls validateFn(PayloadNoSig(e), e.Signature); it returns
\* validateFn's own error when validateFn fails, errInvalidSigner when the
\* recovered address is not e.Address, and succeeds only when the recovered
\* address equals e.Address.
C2_AuthenticationResult ==
    Authenticates =>
        /\ vargs = Called(PayloadNoSig(sent), sent.Signature, validate)
        /\ err = IF validate.err # NoErr THEN validate.err
                 ELSE IF validate.addr # sent.Address THEN errInvalidSigner
                 ELSE NoErr

C2_Witness ==
    /\ Authenticates
    /\ validate.err = NoErr
    /\ validate.addr # sent.Address
    /\ err = errInvalidSigner

\* C3: decoding the bytes Payload made of an envelope gives back that envelope,
\* equal on all six fields, and no decode error.
C3_RoundTrip ==
    (op = "FromPayload" /\ sent # NoEnvelope) =>
        /\ err # DecodeError
        /\ m.Hash = sent.Hash
        /\ m.Code = sent.Code
        /\ m.Msg = sent.Msg
        /\ m.Address = sent.Address
        /\ m.Signature = sent.Signature
        /\ m.CommittedSeal = sent.CommittedSeal

C3_Witness ==
    /\ op = "FromPayload"
    /\ sent # NoEnvelope
    /\ err = NoErr
    /\ m = sent
    /\ m.Code = 200
    /\ Len(m.Msg) = 2
    /\ Len(m.Signature) = 65
    /\ m.CommittedSeal = <<200>>

Phases == <<StateAcceptRequest, StatePreprepared, StatePrepared, StateCommitted>>

\* C4: for the phases AcceptRequest, Preprepared, Prepared, Committed in that
\* order, P[i].Cmp(P[j]) is -1 if i < j, 0 if i = j and +1 if i > j.
C4_TotalOrder ==
    op = "Cmp" =>
        \A i \in 1..4, j \in 1..4 :
            (s = Phases[i] /\ y = Phases[j]) =>
                cmp = IF i < j THEN -1 ELSE IF i = j THEN 0 ELSE 1

C4_Witness == op = "Cmp" /\ s = Phases[4] /\ y = Phases[1] /\ cmp = 1

\* C5: GetView on an envelope whose kind is outside {0,1,2,3} returns
\* errInvalidMessage and no view, whatever the payload is.
C5_UnknownKind ==
    (op = "GetView" /\ m.Code \notin {0, 1, 2, 3}) =>
        (err = errInvalidMessage /\ view = NoView)

C5_Witness ==
    /\ op = "GetView"
    /\ m.Code = 99
    /\ m.Msg \in SubjectPayloads
    /\ err = errInvalidMessage
    /\ view = NoView

\* the payload is not of the shape the kind asks for
ShapeMismatch ==
    \/ m.Code = 0 /\ m.Msg \notin ProposalPayloads
    \/ m.Code \in {1, 2, 3} /\ m.Msg \notin SubjectPayloads

\* C6, as stated: GetView returns a view or errInvalidMessage and nothing else;
\* for a valid kind whose payload is not of the kind's shape it returns
\* errInvalidMessage.
C6_MismatchIsInvalidMessage ==
    op = "GetView" =>
        /\ \/ err = NoErr /\ view # NoView
           \/ err = errInvalidMessage /\ view = NoView
        /\ ShapeMismatch => err = errInvalidMessage

\* C6, amended: GetView returns a view, errInvalidMessage or the decode error:
\* for a valid kind whose payload is not of the kind's shape it returns the
\* error of decoding the payload and no view, for a valid kind whose payload is
\* of the shape it returns the payload's view, and it returns errInvalidMessage
\* for the other kinds only.
C6_MismatchIsDecodeError ==
    op = "GetView" =>
        /\ (m.Code \in {0, 1, 2, 3} /\ ShapeMismatch) =>
               (err = DecodeError /\ view = NoView)
        /\ (m.Code \in {0, 1, 2, 3} /\ ~ShapeMismatch) =>
               (err = NoErr /\ view \in Views)
        /\ err = errInvalidMessage => m.Code \notin {0, 1, 2, 3}

C6_Witness ==
    /\ op = "GetView"
    /\ m.Code = 1
    /\ m.Msg \in ProposalPayloads
    /\ err = DecodeError
    /\ view = NoView

\* C7: with N validators, f = floor((N-1)/3) and Q = N - f, the transition
\* Preprepared -> Prepared has not fired while every digest has fewer than Q
\* distinct senders stored, it has fired exactly once when a digest has Q or
\* more, and duplicates and further Prepares never fire it again.
C7_QuorumFiresOnce ==
    tracker # Stopped =>
        LET N == tracker.n
            Q == N - ((N - 1) \div 3)
            count(d) == Cardinality({v \in 1..N : tracker.prepares[v] = d})
        IN  /\ tracker.fired <= 1
            /\ (\A d \in Digests : count(d) < Q) =>
                   (tracker.fired = 0 /\ tracker.phase # StatePrepared)
            /\ (\E d \in Digests : count(d) >= Q) =>
                   (tracker.fired = 1 /\ tracker.phase = StatePrepared)

C7_Witness ==
    /\ tracker.n = 4
    /\ \A v \in 1..4 : tracker.prepares[v] = "d1"
    /\ tracker.res = "Duplicate"
    /\ tracker.fired = 1
    /\ tracker.phase = StatePrepared

C9_ReceiverHoldsDecoded ==
    [][(op' = "FromPayload" /\ err' \in {VerifyError, errInvalidSigner}) =>
          /\ sent' # NoEnvelope
          /\ m' = sent'
          /\ overwritten' = (m # sent')]_vars

C9_Witness ==
    /\ op = "FromPayload"
    /\ err = errInvalidSigner
    /\ overwritten
    /\ m = sent
    /\ m # ZeroMessage

\* C10: every parameter has the contract value when the Kore fork is active
\* and the contract source defines it, else the header value when the header
\* source defines it, else the default; without the fork the contract values
\* do not matter.
C10_Precedence ==
    gov.calls = 1 =>
        \A k \in ParamNames :
            gov.ret[k] =
                IF gov.koreHF /\ k \in DOMAIN gov.p2 THEN gov.p2[k]
                ELSE IF k \in DOMAIN gov.p1 THEN gov.p1[k]
                ELSE DefaultGovernanceParamSet[k]

C10_Witness ==
    /\ gov.calls = 1
    /\ gov.koreHF
    /\ \E k \in ParamNames :
        /\ k \in DOMAIN gov.p1
        /\ k \in DOMAIN gov.p2
        /\ gov.p1[k] # gov.p2[k]
        /\ gov.ret[k] = gov.p2[k]
    /\ \E k \in ParamNames :
        /\ k \in DOMAIN gov.p1
        /\ k \notin DOMAIN gov.p2
        /\ gov.p1[k] # DefaultGovernanceParamSet[k]
        /\ gov.ret[k] = gov.p1[k]

=============================================================================
